---- MODULE Spec2Model ----
(***************************************************************************)
(* Model of textual_kitty.widget._base.Image: the Textual widget that      *)
(* tracks an image, reports its content size in terminal cells and hands   *)
(* rendering to a renderable object.                                       *)
(*                                                                         *)
(* The cell geometry solver (textual_kitty.geometry.ImageSize), the pixel  *)
(* metadata reader (textual_kitty.pixeldata.PixelMeta) and the terminal    *)
(* query (textual_kitty.terminal.get_terminal_sizes) are separate modules  *)
(* of the package; they are modelled after the written specification of    *)
(* resolveCellSize.  Cell pixel sizes are integers here, so the aspect     *)
(* computation is exact rational arithmetic.                               *)
(***************************************************************************)
EXTENDS Integers, Sequences, FiniteSets, TLC

\* ---------------------------------------------------------------- bounds
MaxPixel == 2        \* image pixel dimensions range over 0..MaxPixel
MaxCell == 2         \* terminal cell pixel sizes range over MinCell..MaxCell
MaxContainer == 2    \* container bounds range over 0..MaxContainer
MaxContent == 2      \* laid-out content size ranges over 0..MaxContent
MaxRenderables == 3  \* renderables created in one run

MinCell == 0 - 1     \* smallest (invalid) cell pixel size a terminal reports

\* ---------------------------------------------------------------- values
Min(a, b) == IF a <= b THEN a ELSE b

\* ceil(a / b) for a >= 0, b > 0
CeilDiv(a, b) == (a + b - 1) \div b

Size(w, h) == [width |-> w, height |-> h]

\* values the image property takes: None, a falsy value (the empty path) or
\* an image carrying its pixel dimensions
NoneImage == [kind |-> "None", width |-> 0, height |-> 0]
EmptyImage == [kind |-> "empty", width |-> 0, height |-> 0]
ImageValues ==
    {NoneImage, EmptyImage} \cup
    [kind : {"image"}, width : 0..MaxPixel, height : 0..MaxPixel]

\* Python truthiness of an image value
Truthy(value) == value.kind = "image"

\* PixelMeta(value): the pixel dimensions of the image
PixelMeta(value) == Size(value.width, value.height)

\* a style of one dimension: not set, auto, or any other scalar
StyleValues == {"None", "auto", "scalar"}

\* a requested dimension: unset, Auto or Fixed(n)
Unset == [kind |-> "unset", n |-> 0]
Auto == [kind |-> "auto", n |-> 0]
Fixed(n) == [kind |-> "fixed", n |-> n]

Dimensions == {"width", "height"}
CellDimensions == {"cell_width", "cell_height"}
CellSizes == MinCell..MaxCell
TerminalSizes == [cell_width : CellSizes, cell_height : CellSizes]
Containers == [width : 0..MaxContainer, height : 0..MaxContainer]
ContentSizes == [width : 0..MaxContent, height : 0..MaxContent]

\* outcome of a call: a value, or the error it raised
Ok(w, h) == [err |-> "none", width |-> w, height |-> h]
Raise(e) == [err |-> e, width |-> 0, height |-> 0]
Return(v) == [err |-> "none", value |-> v]
Throw(e) == [err |-> e, value |-> 0]
NoReturn == [err |-> "nocall", value |-> 0]

\* ------------------------------------------------------- CellSizeResolver
\* the cells one axis needs: the fixed count, or the count derived from the
\* other axis' fixed count by the image's pixel aspect ratio, or the count at
\* native resolution
cellsNeeded(pixels, otherPixels, requested, otherRequested, cell, otherCell) ==
    IF requested.kind = "fixed" THEN requested.n
    ELSE IF otherRequested.kind = "fixed"
         THEN CeilDiv(pixels * otherRequested.n * otherCell, otherPixels * cell)
         ELSE CeilDiv(pixels, cell)

\* ImageSize(pw, ph, width=rw, height=rh).get_cell_size(maxW, maxH, metrics)
resolveCellSize(pw, ph, rw, rh, maxW, maxH, metrics) ==
    IF pw = 0 \/ ph = 0 THEN Ok(0, 0)
    ELSE IF metrics.cell_width <= 0 \/ metrics.cell_height <= 0
         THEN Raise("InvalidMetrics")
         ELSE Ok(Min(cellsNeeded(pw, ph, rw, rh,
                                 metrics.cell_width, metrics.cell_height), maxW),
                 Min(cellsNeeded(ph, pw, rh, rw,
                                 metrics.cell_height, metrics.cell_width), maxH))

\* ------------------------------------------------------------------ state
VARIABLES
    image,           \* self._image
    image_width,     \* self._image_width
    image_height,    \* self._image_height
    renderable,      \* self._renderable: 0 is None, else the renderable's id
    styles,          \* self.styles: the width and height styles
    content_size,    \* self.content_size, set by the host's layout
    terminal_sizes,  \* what get_terminal_sizes() returns
    visible,         \* the content size last measured is non-zero
    repaint,         \* a repaint was requested by refresh()
    pass,            \* the measurement calls of the layout pass under way
    events,          \* renderables created, cleaned up and dropped, in order
    render_result    \* outcome of the last render call

vars == <<image, image_width, image_height, renderable, styles, content_size,
          terminal_sizes, visible, repaint, pass, events, render_result>>

IdlePass ==
    [phase |-> "idle", container |-> Size(0, 0), width |-> 0,
     wret |-> NoReturn, hret |-> NoReturn]

Created == Len(SelectSeq(events, LAMBDA e : e.op = "create"))

\* --------------------------------------------------------- styled size
\* slip: every fixed dimension reads the content width
get_styled_dimension_width(dimension) ==
    IF styles[dimension] = "None" THEN Unset
    ELSE IF styles[dimension] = "auto" THEN Auto
    ELSE Fixed(content_size.width)

\* slip: every fixed dimension reads the content height
get_styled_dimension_height(dimension) ==
    IF styles[dimension] = "None" THEN Unset
    ELSE IF styles[dimension] = "auto" THEN Auto
    ELSE Fixed(content_size.height)

\* slip: the auto branch is missing, so auto is taken for a fixed dimension
get_styled_dimension_auto(dimension) ==
    IF styles[dimension] = "None" THEN Unset
    ELSE Fixed(content_size[dimension])

\* Image._get_styled_dimension
get_styled_dimension(dimension) ==
    IF styles[dimension] = "None" THEN Unset
    ELSE IF styles[dimension] = "auto" THEN Auto
    ELSE Fixed(content_size[dimension])

\* Image._get_styled_size
get_styled_size ==
    [width |-> get_styled_dimension("width"),
     height |-> get_styled_dimension("height")]

\* --------------------------------------------------------- measurement
\* slip: the container's height and width are passed in the wrong order
get_content_width_swapped(container) ==
    LET styled == get_styled_size
        cell == resolveCellSize(image_width, image_height,
                                styled.width, styled.height,
                                container.height, container.width,
                                terminal_sizes)
    IN  IF cell.err = "none" THEN Return(cell.width) ELSE Throw(cell.err)

\* slip: the height is unpacked from the cell size instead of the width
get_content_width_unpacked(container) ==
    LET styled == get_styled_size
        cell == resolveCellSize(image_width, image_height,
                                styled.width, styled.height,
                                container.width, container.height,
                                terminal_sizes)
    IN  IF cell.err = "none" THEN Return(cell.height) ELSE Throw(cell.err)

\* variant: a failed resolution is swallowed and a one-cell placeholder
\* returned
get_content_width_fallback(container) ==
    LET styled == get_styled_size
        cell == resolveCellSize(image_width, image_height,
                                styled.width, styled.height,
                                container.width, container.height,
                                terminal_sizes)
    IN  IF cell.err = "none" THEN Return(cell.width) ELSE Return(1)

\* Image.get_content_width
get_content_width(container) ==
    LET styled == get_styled_size
        cell == resolveCellSize(image_width, image_height,
                                styled.width, styled.height,
                                container.width, container.height,
                                terminal_sizes)
    IN  IF cell.err = "none" THEN Return(cell.width) ELSE Throw(cell.err)

\* slip: the resolved width is passed as the height bound
get_content_height_swapped(container, width) ==
    LET styled == get_styled_size
        cell == resolveCellSize(image_width, image_height,
                                styled.width, styled.height,
                                container.height, width,
                                terminal_sizes)
    IN  IF cell.err = "none" THEN Return(cell.height) ELSE Throw(cell.err)

\* Image.get_content_height
get_content_height(container, width) ==
    LET styled == get_styled_size
        cell == resolveCellSize(image_width, image_height,
                                styled.width, styled.height,
                                width, container.height,
                                terminal_sizes)
    IN  IF cell.err = "none" THEN Return(cell.height) ELSE Throw(cell.err)

\* ---------------------------------------------------------------- actions
\* The widget runs on the host's single thread: a layout pass (the width
\* measurement followed by the height measurement) is not interleaved with
\* assignments, style changes or painting.

\* slip: the reference is dropped without cleanup()
Discard_nocleanup ==
    IF renderable # 0
    THEN <<[op |-> "drop", id |-> renderable]>>
    ELSE <<>>

\* the renderable's cleanup() followed by dropping the reference
Discard ==
    IF renderable # 0
    THEN <<[op |-> "cleanup", id |-> renderable],
           [op |-> "drop", id |-> renderable]>>
    ELSE <<>>

\* slip: a falsy image leaves the stored pixel size of the previous image
SetImage_stale(value) ==
    /\ pass.phase = "idle"
    /\ events' = events \o Discard
    /\ renderable' = 0
    /\ image' = value
    /\ image_width' = IF Truthy(value) THEN PixelMeta(value).width
                      ELSE image_width
    /\ image_height' = IF Truthy(value) THEN PixelMeta(value).height
                       ELSE image_height
    /\ repaint' = TRUE
    /\ UNCHANGED <<styles, content_size, terminal_sizes, visible, pass,
                   render_result>>

\* Image.image setter; refresh() asks for a repaint and leaves the layout,
\* and with it the size last measured, as it is
SetImage(value) ==
    /\ pass.phase = "idle"
    /\ events' = events \o Discard
    /\ renderable' = 0
    /\ image' = value
    /\ image_width' = IF Truthy(value) THEN PixelMeta(value).width ELSE 0
    /\ image_height' = IF Truthy(value) THEN PixelMeta(value).height ELSE 0
    /\ repaint' = TRUE
    /\ UNCHANGED <<styles, content_size, terminal_sizes, visible, pass,
                   render_result>>

\* the host changes the widget's width or height style; a change of the
\* styles, the content size or the terminal makes the host measure the widget
\* anew before it paints again
SetStyles(dimension, style) ==
    /\ pass.phase = "idle"
    /\ styles[dimension] # style
    /\ styles' = [styles EXCEPT ![dimension] = style]
    /\ visible' = FALSE
    /\ UNCHANGED <<image, image_width, image_height, renderable, content_size,
                   terminal_sizes, repaint, pass, events, render_result>>

\* the host's layout resolves the widget's content width or height
SetContentSize(dimension, n) ==
    /\ pass.phase = "idle"
    /\ content_size[dimension] # n
    /\ content_size' = [content_size EXCEPT ![dimension] = n]
    /\ visible' = FALSE
    /\ UNCHANGED <<image, image_width, image_height, renderable, styles,
                   terminal_sizes, repaint, pass, events, render_result>>

\* the terminal is resized or its font changes: a cell's pixel width or
\* height changes
SetTerminalSizes(dimension, n) ==
    /\ pass.phase = "idle"
    /\ terminal_sizes[dimension] # n
    /\ terminal_sizes' = [terminal_sizes EXCEPT ![dimension] = n]
    /\ visible' = FALSE
    /\ UNCHANGED <<image, image_width, image_height, renderable, styles,
                   content_size, repaint, pass, events, render_result>>

\* the host's width measurement: starts a layout pass
GetContentWidth(container) ==
    /\ pass.phase = "idle"
    /\ pass' = [phase |-> "width", container |-> container, width |-> 0,
                wret |-> get_content_width(container), hret |-> NoReturn]
    /\ visible' = FALSE
    /\ UNCHANGED <<image, image_width, image_height, renderable, styles,
                   content_size, terminal_sizes, repaint, events,
                   render_result>>

\* the host's height measurement.  After a width measurement it is called
\* for the same container with the width that measurement returned; a host
\* that resolved the width itself calls it alone, with that width.  The
\* method reads the container's height only, so the container of a call made
\* alone is taken to be as wide as the width passed.
GetContentHeight(container, width) ==
    /\ \/ /\ pass.phase = "width"
          /\ pass.wret.err = "none"
          /\ container = pass.container
          /\ width = pass.wret.value
       \/ /\ pass.phase = "idle"
          /\ container.width = width
    /\ LET ret == get_content_height(container, width)
       IN  /\ pass' = [phase |-> "height", container |-> container,
                       width |-> width, wret |-> pass.wret, hret |-> ret]
           /\ visible' = (ret.err = "none" /\ width > 0 /\ ret.value > 0)
    /\ UNCHANGED <<image, image_width, image_height, renderable, styles,
                   content_size, terminal_sizes, repaint, events,
                   render_result>>

\* the layout pass is over (completed, or given up after an error)
EndLayout ==
    /\ pass.phase # "idle"
    /\ pass' = IdlePass
    /\ UNCHANGED <<image, image_width, image_height, renderable, styles,
                   content_size, terminal_sizes, visible, repaint, events,
                   render_result>>

\* Image.render; the host calls it only while the widget's last measured
\* size is non-zero
Render ==
    /\ pass.phase = "idle"
    /\ visible
    /\ Created < MaxRenderables
    /\ IF Truthy(image)
       THEN /\ events' = events \o Discard \o
                         <<[op |-> "create", id |-> Created + 1]>>
            /\ renderable' = Created + 1
            /\ render_result' = "ok"
            /\ repaint' = FALSE
       ELSE /\ render_result' = "AssertionError"
            /\ UNCHANGED <<events, renderable, repaint>>
    /\ UNCHANGED <<image, image_width, image_height, styles, content_size,
                   terminal_sizes, visible, pass>>

\* Image.__init__: no renderable, then the image setter
Init ==
    /\ \E value \in ImageValues :
          /\ image = value
          /\ image_width = IF Truthy(value) THEN PixelMeta(value).width ELSE 0
          /\ image_height = IF Truthy(value) THEN PixelMeta(value).height ELSE 0
    /\ renderable = 0
    /\ styles = [width |-> "None", height |-> "None"]
    /\ content_size = Size(0, 0)
    /\ terminal_sizes = [cell_width |-> 1, cell_height |-> 1]
    /\ visible = FALSE
    /\ repaint = TRUE
    /\ pass = IdlePass
    /\ events = <<>>
    /\ render_result = "none"

\* layout: the widget is measured while image, styles and terminal change
Next ==
    \/ \E value \in ImageValues : SetImage(value)
    \/ \E d \in Dimensions, style \in StyleValues : SetStyles(d, style)
    \/ \E d \in Dimensions, n \in 0..MaxContent : SetContentSize(d, n)
    \/ \E d \in CellDimensions, n \in CellSizes : SetTerminalSizes(d, n)
    \/ \E c \in Containers : GetContentWidth(c)
    \/ \E c \in Containers, w \in 0..MaxContainer : GetContentHeight(c, w)
    \/ EndLayout

Spec == Init /\ [][Next]_vars

\* lifecycle: images are assigned, measured and rendered
NextLifecycle ==
    \/ \E value \in ImageValues : SetImage(value)
    \/ \E d \in Dimensions, style \in StyleValues : SetStyles(d, style)
    \/ \E c \in Containers : GetContentWidth(c)
    \/ \E c \in Containers, w \in 0..MaxContainer : GetContentHeight(c, w)
    \/ EndLayout
    \/ Render

SpecLifecycle == Init /\ [][NextLifecycle]_vars

\* ---------------------------------------------------------- observations
Positive == image_width > 0 /\ image_height > 0
ValidMetrics == terminal_sizes.cell_width > 0 /\ terminal_sizes.cell_height > 0
WidthMeasured == pass.wret.err # "nocall"
HeightMeasured == pass.phase = "height"
\* a complete layout pass: width measured, then height for that width
PassComplete == HeightMeasured /\ WidthMeasured
\* the bounds the measured height was resolved against are (pass.width,
\* pass.container.height); those of the width are pass.container

TypeOK ==
    /\ image \in ImageValues
    /\ image_width \in 0..MaxPixel /\ image_height \in 0..MaxPixel
    /\ renderable \in 0..MaxRenderables
    /\ styles \in [width : StyleValues, height : StyleValues]
    /\ terminal_sizes \in TerminalSizes
    /\ content_size \in ContentSizes
    /\ visible \in BOOLEAN
    /\ repaint \in BOOLEAN
    /\ pass.phase \in {"idle", "width", "height"}
    /\ pass.container \in Containers
    /\ render_result \in {"none", "ok", "AssertionError"}

\* ------------------------------------------------------------------ C1
\* C1: with both styles unset, a positive image size and valid cell metrics,
\* the measured width is min(ceil(pixelWidth / cellPixelWidth),
\* container.width) and the measured height is min(ceil(pixelHeight /
\* cellPixelHeight), container.height), each from its own axis alone; the
\* 800x400 image on 10x20 cells in a 100x100 container takes (80, 20).
C1_NativeSizeClamped ==
    /\ (styles = [width |-> "None", height |-> "None"] /\ Positive /\ ValidMetrics)
       => /\ WidthMeasured =>
               pass.wret = Return(Min(CeilDiv(image_width,
                                              terminal_sizes.cell_width),
                                      pass.container.width))
          /\ HeightMeasured =>
               pass.hret = Return(Min(CeilDiv(image_height,
                                              terminal_sizes.cell_height),
                                      pass.container.height))
    /\ resolveCellSize(800, 400, Unset, Unset, 100, 100,
                       [cell_width |-> 10, cell_height |-> 20]) = Ok(80, 20)

\* a complete pass over an unstyled image whose width rounds up to a cell
\* count below the container's and whose height is cut to the container's
C1_Witness ==
    /\ styles = [width |-> "None", height |-> "None"]
    /\ Positive /\ ValidMetrics /\ PassComplete
    /\ image_width % terminal_sizes.cell_width # 0
    /\ pass.wret.value < pass.container.width
    /\ pass.hret.value = pass.container.height
    /\ pass.hret.value < CeilDiv(image_height, terminal_sizes.cell_height)

\* ------------------------------------------------------------------ C2
\* C2: whatever the styles, the image and the container, a measured width
\* lies in 0..container.width and a measured height in 0..container.height,
\* so a container bound of 0 forces 0 on that axis; the 800x400 image on
\* 10x20 cells in a 10x10 container takes (10, 10).
C2_WithinContainer ==
    /\ (WidthMeasured /\ pass.wret.err = "none")
       => /\ 0 <= pass.wret.value
          /\ pass.wret.value <= pass.container.width
    /\ (HeightMeasured /\ pass.hret.err = "none")
       => /\ 0 <= pass.hret.value
          /\ pass.hret.value <= pass.container.height
    /\ resolveCellSize(800, 400, Unset, Unset, 10, 10,
                       [cell_width |-> 10, cell_height |-> 20]) = Ok(10, 10)

\* a complete pass in which a fixed width larger than the container is cut
\* to it while the container leaves no row at all
C2_Witness ==
    /\ Positive /\ ValidMetrics /\ PassComplete
    /\ styles.width = "scalar"
    /\ content_size.width > pass.container.width
    /\ pass.container.width > 0
    /\ pass.wret = Return(pass.container.width)
    /\ pass.container.height = 0
    /\ pass.hret = Return(0)

\* ------------------------------------------------------------------ C3
\* C3: with exactly one style fixed at n cells and the other unset or auto
\* (image size positive, metrics valid), the fixed axis measures n cut to its
\* container bound and the other axis ceil(derivedPixels / cellPixelDim) cut
\* to its bound, derivedPixels being the other pixel dimension scaled by
\* n * cellPixelDim(fixed) / pixelDim(fixed); 800x400 on 10x20 cells with
\* width 40 in a 100x100 container takes (40, 10).
C3_OneFixed ==
    LET cw == terminal_sizes.cell_width
        ch == terminal_sizes.cell_height
    IN
    /\ (Positive /\ ValidMetrics /\ styles.width = "scalar"
        /\ styles.height # "scalar")
       => /\ WidthMeasured =>
               pass.wret = Return(Min(content_size.width, pass.container.width))
          /\ HeightMeasured =>
               pass.hret = Return(Min(CeilDiv(image_height * content_size.width * cw,
                                              image_width * ch),
                                      pass.container.height))
    /\ (Positive /\ ValidMetrics /\ styles.height = "scalar"
        /\ styles.width # "scalar")
       => /\ WidthMeasured =>
               pass.wret = Return(Min(CeilDiv(image_width * content_size.height * ch,
                                              image_height * cw),
                                      pass.container.width))
          /\ HeightMeasured =>
               pass.hret = Return(Min(content_size.height, pass.container.height))
    /\ resolveCellSize(800, 400, Fixed(40), Unset, 100, 100,
                       [cell_width |-> 10, cell_height |-> 20]) = Ok(40, 10)

\* a complete pass with only the height fixed, whose derived width is
\* neither the native width nor cut by the container
C3_Witness ==
    /\ Positive /\ ValidMetrics /\ PassComplete
    /\ styles = [width |-> "auto", height |-> "scalar"]
    /\ content_size.height > 0
    /\ pass.wret.value # CeilDiv(image_width, terminal_sizes.cell_width)
    /\ pass.wret.value < pass.container.width
    /\ pass.wret.value > 0
    /\ pass.hret.value = content_size.height

\* ------------------------------------------------------------------ C4
\* C4: while the stored pixel width or height is 0, both measurements return
\* 0 and raise nothing, whatever the styles, the container and the terminal
\* metrics; and the stored pixel size is (0, 0) whenever the image is None
\* or another falsy value.
C4_NoImageNoSize ==
    /\ (image_width = 0 \/ image_height = 0)
       => /\ WidthMeasured => pass.wret = Return(0)
          /\ HeightMeasured => pass.hret = Return(0)
    /\ ~Truthy(image) => (image_width = 0 /\ image_height = 0)

\* the image is None, the terminal reports an invalid cell size, a width is
\* fixed and the container has room, and a complete pass measured (0, 0)
C4_Witness ==
    /\ image = NoneImage
    /\ ~ValidMetrics
    /\ styles.width = "scalar" /\ content_size.width > 0
    /\ pass.container.width > 0 /\ pass.container.height > 0
    /\ PassComplete
    /\ pass.wret = Return(0) /\ pass.hret = Return(0)

C6_AutoAsUnset ==
    (styles = [width |-> "auto", height |-> "auto"])
    => /\ WidthMeasured =>
            LET r == resolveCellSize(image_width, image_height, Unset, Unset,
                                     pass.container.width,
                                     pass.container.height, terminal_sizes)
            IN  /\ pass.wret.err = r.err
                /\ pass.wret.value = r.width
                /\ (Positive /\ ValidMetrics) =>
                     pass.wret.value = Min(CeilDiv(image_width,
                                                   terminal_sizes.cell_width),
                                           pass.container.width)
       /\ HeightMeasured =>
            LET r == resolveCellSize(image_width, image_height, Unset, Unset,
                                     pass.width, pass.container.height,
                                     terminal_sizes)
            IN  /\ pass.hret.err = r.err
                /\ pass.hret.value = r.height
                /\ (Positive /\ ValidMetrics) =>
                     pass.hret.value = Min(CeilDiv(image_height,
                                                   terminal_sizes.cell_height),
                                           pass.container.height)

\* a complete pass with both styles auto whose result is the native size
\* and differs from the laid-out content size on both axes
C6_Witness ==
    /\ styles = [width |-> "auto", height |-> "auto"]
    /\ Positive /\ ValidMetrics /\ PassComplete
    /\ pass.wret.value = CeilDiv(image_width, terminal_sizes.cell_width)
    /\ pass.hret.value = CeilDiv(image_height, terminal_sizes.cell_height)
    /\ pass.wret.value # content_size.width
    /\ pass.hret.value # content_size.height
    /\ content_size.width > 0 /\ content_size.height > 0

\* ------------------------------------------------------------------ C7
\* the measured height and the aspect-exact height, both in pixels and both
\* multiplied by the image's pixel width, differ by less than one cell row
WithinOneCell ==
    LET got == pass.hret.value * terminal_sizes.cell_height * image_width
        exact == image_height * content_size.width * terminal_sizes.cell_width
        cell == terminal_sizes.cell_height * image_width
    IN  got - exact < cell /\ exact - got < cell

OnlyWidthFixedMeasured ==
    /\ styles = [width |-> "scalar", height |-> "None"]
    /\ Positive /\ ValidMetrics /\ HeightMeasured

\* C7 as written: with only the width fixed at n cells, for every container
\* the measured height in pixels differs from the aspect-exact height
\* pixelHeight * n * cellPixelWidth / pixelWidth by less than one cell.
C7_AspectWithinOneCellAnyContainer ==
    OnlyWidthFixedMeasured => WithinOneCell

\* C7 amended: with only the width fixed at n cells, for every container at
\* least as high as the derived height ceil(pixelHeight * n * cellPixelWidth
\* / (pixelWidth * cellPixelHeight)), the measured height in pixels differs
\* from the aspect-exact height by less than one cell.
C7_AspectWithinOneCell ==
    (/\ OnlyWidthFixedMeasured
     /\ pass.container.height >=
          CeilDiv(image_height * content_size.width * terminal_sizes.cell_width,
                  image_width * terminal_sizes.cell_height))
    => WithinOneCell

\* only the width is fixed, the aspect-exact height is no whole number of
\* cells and the measured height is that number rounded up
C7_Witness ==
    /\ OnlyWidthFixedMeasured
    /\ content_size.width > 0
    /\ (image_height * content_size.width * terminal_sizes.cell_width)
         % (image_width * terminal_sizes.cell_height) # 0
    /\ pass.hret.value =
          CeilDiv(image_height * content_size.width * terminal_sizes.cell_width,
                  image_width * terminal_sizes.cell_height)
    /\ pass.hret.value > 0

\* ------------------------------------------------------------------ C8
\* C8: when render is called only while the last measured content size is
\* non-zero, the assertion at the start of render never fails; and whenever
\* the image is unset the stored pixel size is (0, 0) and both measurements
\* report 0, for every styled width and height.
C8_RenderAssertionHolds ==
    /\ render_result # "AssertionError"
    /\ ~Truthy(image)
       => /\ image_width = 0 /\ image_height = 0
          /\ WidthMeasured => pass.wret = Return(0)
          /\ HeightMeasured => pass.hret = Return(0)

\* ------------------------------------------------------------------ C9
\* C9: in a layout pass, w = get_content_width(container) followed by
\* h = get_content_height(container, w) gives the pair (w, h) that one
\* resolution against (container.width, container.height) gives, for every
\* combination of styles; a resolution that fails fails the width
\* measurement.
C9_TwoCallsAgree ==
    LET styled == [width |-> IF styles.width = "None" THEN Unset
                             ELSE IF styles.width = "auto" THEN Auto
                             ELSE Fixed(content_size.width),
                   height |-> IF styles.height = "None" THEN Unset
                              ELSE IF styles.height = "auto" THEN Auto
                              ELSE Fixed(content_size.height)]
        r == resolveCellSize(image_width, image_height,
                             styled.width, styled.height,
                             pass.container.width, pass.container.height,
                             terminal_sizes)
    IN  /\ PassComplete
           => /\ r.err = "none"
              /\ pass.wret = Return(r.width)
              /\ pass.hret = Return(r.height)
        /\ (WidthMeasured /\ r.err # "none") => pass.wret = Throw(r.err)

\* a complete pass whose width was cut below the container's width and
\* whose height depends on the fixed width
C9_Witness ==
    /\ PassComplete /\ Positive /\ ValidMetrics
    /\ styles = [width |-> "scalar", height |-> "auto"]
    /\ pass.wret.value < pass.container.width
    /\ pass.wret.value > 0
    /\ pass.hret.value > 0
    /\ pass.hret.value # CeilDiv(image_height, terminal_sizes.cell_height)

\* ------------------------------------------------------------------ C10
Ids == 1..Created
EventsOf(op, id) == {i \in 1..Len(events) : events[i] = [op |-> op, id |-> id]}
Live == {id \in Ids : EventsOf("cleanup", id) = {}}

\* C10: at most one renderable is live and it is the one the widget holds;
\* every renderable the widget no longer holds was cleaned up exactly once,
\* before its reference was dropped and before any later renderable was
\* created.
C10_OneLiveRenderable ==
    /\ Cardinality(Live) <= 1
    /\ Live = IF renderable = 0 THEN {} ELSE {renderable}
    /\ \A id \in Ids :
          /\ Cardinality(EventsOf("create", id)) = 1
          /\ id # renderable
             => /\ Cardinality(EventsOf("cleanup", id)) = 1
                /\ Cardinality(EventsOf("drop", id)) = 1
                /\ \A c \in EventsOf("cleanup", id) :
                      /\ \A d \in EventsOf("drop", id) : c < d
                      /\ \A later \in Ids :
                            later > id
                            => \A n \in EventsOf("create", later) : c < n

\* one renderable was replaced by a render, the next was discarded by an
\* image assignment, and a third one is live
C10_Witness ==
    /\ Created = 3
    /\ renderable = 3
    /\ Len(events) = 7
    /\ ~repaint

====
